---- MODULE Spec2Model ----
(***************************************************************************)
(* MarketMind: a sequential pipeline of six agents (research, financial,   *)
(* sentiment, data analysis, regulatory, report) that hand their results   *)
(* to each other through JSON documents in the directory "data" and end    *)
(* with a PDF report in the directory "reports".                           *)
(*                                                                         *)
(* Conventions of the model                                                *)
(*  - a Python dict is a function with a domain of strings; the empty dict *)
(*    {} is the empty function << >>; dict.get(k, d) is Get(d, k, d)       *)
(*  - a Python list is a sequence                                          *)
(*  - a text that the code searches is a sequence of one-character         *)
(*    strings, so that str.lower() and the substring test "k in text" are  *)
(*    computed, not assumed; a text that is only copied is a string        *)
(*  - price_change_percent is kept in hundredths of a percent (the code    *)
(*    rounds it to 2 digits), sentiment scores in thousandths (the code    *)
(*    rounds them to 3 digits)                                             *)
(*  - timestamps, the article's date and source, current_price, the        *)
(*    exchange, subjectivity, the part-of-speech keywords, the social      *)
(*    posts, the legal_analysis text and the numbers interpolated into     *)
(*    descriptions are not read by any decision of the code and are left   *)
(*    out of the documents; the text the generative model returns is the   *)
(*    token "generated"                                                    *)
(***************************************************************************)
EXTENDS Integers, Sequences, FiniteSets, TLC

VARIABLES
    files,       \* the directory "data": file name -> << >> (no file) or <<document>>
    reports,     \* the directory "reports": company -> << >> or <<report>>
    pc,          \* position of run_market_mind: 0 not running, 1..6 next stage, 7 returned
    company,     \* the argument of the current run_market_mind
    ticker_symbol,   \* financial_agent.ticker_symbol of the current run_market_mind
    polarity,    \* blob.sentiment.polarity of each title in the current run, in thousandths
    hasKey,      \* whether GEMINI_API_KEY is set in the environment of the run
    executed,    \* the stages whose run() was invoked in the current run, in order
    ret,         \* the last stage invoked, what its run() returned and how its write ended
    result,      \* what run_market_mind returned: "None", "False", "True" ("" while running)
    written,     \* the documents written during the current run
    staleReads,  \* the documents of another run that a stage of the current run loaded
    runs,        \* the number of calls of run_market_mind so far
    self,        \* the number of the call of run_market_mind that is running
    author,      \* file name -> the number of the call that wrote the file last
    other        \* the state of a second, simultaneous call of run_market_mind

vars == <<files, reports, pc, company, ticker_symbol, hasKey, executed, ret, result,
          written, staleReads, runs, polarity, self, author, other>>

----------------------------------------------------------------------------
(* Bounds of the model *)

\* the news source returns at most this many articles (the code: at most 8)
MaxArticles == 2

\* run_market_mind is called at most this many times, one call after the other
MaxRuns == 2

----------------------------------------------------------------------------
(* Python values *)

EmptyDict == << >>

Get(d, k, default) == IF k \in DOMAIN d THEN d[k] ELSE default

Abs(n) == IF n < 0 THEN -n ELSE n

Min(a, b) == IF a < b THEN a ELSE b

Max(a, b) == IF a > b THEN a ELSE b

\* one hundredth of a percent is the unit of price_change_percent: 5% is 5 * Cent
Cent == 100

\* one thousandth is the unit of the sentiment scores: 0.2 is 200
Milli == 1000

RECURSIVE SumSeq(_)
SumSeq(s) == IF s = << >> THEN 0 ELSE Head(s) + SumSeq(Tail(s))

\* a / n cut to three digits instead of rounded
TruncatedDiv(a, n) == IF a >= 0 THEN a \div n ELSE -((-a) \div n)

\* round(a / n, 3) of Python 3 for a in thousandths: to the nearest, a tie to even
RoundDiv(a, n) ==
    LET q == a \div n
        r == a % n
    IN  IF 2 * r < n THEN q
        ELSE IF 2 * r > n THEN q + 1
        ELSE IF q % 2 = 0 THEN q ELSE q + 1

\* the concatenation of a sequence of sequences
RECURSIVE Flatten(_)
Flatten(ss) == IF ss = << >> THEN << >> ELSE Head(ss) \o Flatten(Tail(ss))

\* the sequences over S of length at most n
SeqUpTo(S, n) == UNION {[1..k -> S] : k \in 0..n}

----------------------------------------------------------------------------
(* Texts *)

UpperCase == <<"A","B","C","D","E","F","G","H","I","J","K","L","M",
               "N","O","P","Q","R","S","T","U","V","W","X","Y","Z">>

LowerCase == <<"a","b","c","d","e","f","g","h","i","j","k","l","m",
               "n","o","p","q","r","s","t","u","v","w","x","y","z">>

LowerChar(c) ==
    IF \E i \in 1..26 : UpperCase[i] = c
    THEN LowerCase[CHOOSE i \in 1..26 : UpperCase[i] = c]
    ELSE c

\* str.lower()
Lower(text) == [i \in 1..Len(text) |-> LowerChar(text[i])]

\* the Python test "k in text" on strings
Contains(k, text) ==
    \E i \in 1..(Len(text) - Len(k) + 1) : SubSeq(text, i, i + Len(k) - 1) = k

\* the number of words of the list that occur in the text
CountIn(words, text) == Cardinality({i \in 1..Len(words) : Contains(words[i], text)})

----------------------------------------------------------------------------
(* The fixed tables of the agents *)

\* SentimentAnalystAgent.detect_lawsuits: lawsuit_keywords
lawsuit_keywords == <<
    <<"l","a","w","s","u","i","t">>,
    <<"s","u","e","d">>,
    <<"l","e","g","a","l"," ","a","c","t","i","o","n">>,
    <<"c","o","u","r","t">>,
    <<"l","i","t","i","g","a","t","i","o","n">>,
    <<"s","e","t","t","l","e","m","e","n","t">>,
    <<"c","l","a","s","s"," ","a","c","t","i","o","n">>,
    <<"d","i","s","p","u","t","e">>,
    <<"p","a","t","e","n","t">>,
    <<"i","n","f","r","i","n","g","e","m","e","n","t">> >>

\* SentimentAnalystAgent._analyze_news_sentiment: positive_indicators
positive_indicators == <<
    <<"l","a","u","n","c","h">>,
    <<"i","n","n","o","v","a","t","i","o","n">>,
    <<"g","r","o","w","t","h">>,
    <<"p","a","r","t","n","e","r","s","h","i","p">>,
    <<"s","u","c","c","e","s","s">> >>

\* SentimentAnalystAgent._analyze_news_sentiment: negative_indicators
negative_indicators == <<
    <<"l","a","w","s","u","i","t">>,
    <<"d","i","s","p","u","t","e">>,
    <<"d","e","c","l","i","n","e">>,
    <<"i","n","v","e","s","t","i","g","a","t","i","o","n">>,
    <<"c","o","n","c","e","r","n">> >>

\* FinancialAnalystAgent._get_ticker_symbol: ticker_map, as (name, symbol) pairs
ticker_map == {
    <<"Bayerische Motoren Werke AG", "BMW.DE">>, <<"BMW", "BMW.DE">>,
    <<"Maruti Suzuki", "MARUTI.NS">>, <<"Vedanta", "VEDL.NS">>, <<"ITC", "ITC.NS">>,
    <<"Bajaj", "BAJFINANCE.NS">>, <<"Tesla", "TSLA">>, <<"LG", "066570.KS">>,
    <<"Hyundai", "005380.KS">>, <<"Honda", "7267.T">>, <<"Boeing", "BA">>,
    <<"Apple", "AAPL">>, <<"Lenovo", "0992.HK">> }

\* DataAnalystAgent._load_competitor_map: competitor_map, as (company, names) pairs
competitor_map == {
    <<"Samsung", << <<"A","p","p","l","e">>, <<"L","G">>, <<"S","o","n","y">>,
                    <<"X","i","a","o","m","i">> >> >>,
    <<"Tesla", << <<"F","o","r","d">>, <<"G","M">>,
                  <<"V","o","l","k","s","w","a","g","e","n">>, <<"B","Y","D">> >> >>,
    <<"Toyota", << <<"H","o","n","d","a">>, <<"V","o","l","k","s","w","a","g","e","n">>,
                   <<"H","y","u","n","d","a","i">>, <<"F","o","r","d">> >> >>,
    <<"Volkswagen", << <<"T","o","y","o","t","a">>, <<"B","M","W">>,
                       <<"M","e","r","c","e","d","e","s">>, <<"T","e","s","l","a">> >> >> }

\* RegulatoryAnalystAgent._load_regulatory_map: the "keywords" of regulatory_map
regulatory_map == {
    <<"Samsung", << <<"G","D","P","R">>, <<"a","n","t","i","t","r","u","s","t">>,
                    <<"F","T","C">>, <<"p","r","i","v","a","c","y">>,
                    <<"c","o","n","s","u","m","e","r"," ","p","r","o","t","e","c","t","i","o","n">> >> >>,
    <<"Tesla", << <<"e","m","i","s","s","i","o","n","s">>, <<"s","a","f","e","t","y">>,
                  <<"a","u","t","o","n","o","m","o","u","s">>, <<"N","H","T","S","A">>,
                  <<"r","e","c","a","l","l">> >> >> }

\* dict.get(key, default) on a table of pairs
Lookup(table, key, default) ==
    IF \E e \in table : e[1] = key
    THEN (CHOOSE e \in table : e[1] = key)[2]
    ELSE default

----------------------------------------------------------------------------
(* The world outside the program *)

\* the companies a user asks for: one that ticker_map resolves, and one that only
\* the market-data search can resolve (it is in the competitor and regulatory maps)
Companies == {"Apple", "Samsung"}

\* what the market-data search answers for a name that is not in ticker_map
YfAnswers == {"None", "005930.KS"}

\* the articles the news source returns: a headline with a lawsuit keyword in
\* another letter case, and one with a positive indicator
Articles == {
    [title |-> <<"S","u","e","d">>, link |-> "u1"],
    [title |-> <<"g","r","o","w","t","h">>, link |-> "u2"] }

NewsLists == SeqUpTo(Articles, MaxArticles)

\* the polarities the sentiment model assigns to a headline, in thousandths
Polarities == {-400, 150}

\* the price changes the market data shows, in hundredths of a percent
PriceChanges == {-600, 300}

\* how creating the output directory and writing the output file end
IOResults == {"ok", "makedirs_fails", "open_fails"}

\* how a call of the generative-model library ends
CallResults == {"ok", "fails"}

----------------------------------------------------------------------------
(* The documents of the directory "data" *)

FileNames == {"raw_data.json", "financial_data.json", "sentiment_data.json",
              "analysis_data.json", "regulatory_data.json"}

\* open(path) followed by json.load raises when the file does not exist
Exists(store, f) == store[f] # << >>

\* DataAnalystAgent._load_json: the document, {} when it cannot be loaded
_load_json(store, f) == IF Exists(store, f) THEN store[f][1] ELSE EmptyDict

----------------------------------------------------------------------------
(* FinancialAnalystAgent *)

\* _get_ticker_symbol: the direct mapping first, then the market-data search,
\* whose answer is yf ("None": nothing found, or the search raised)
_get_ticker_symbol(c, yf) == Lookup(ticker_map, c, yf)

\* fetch_financial_data: the snapshot, {} when any call of the market data raised
\* (ticker is None, no market capitalisation, network failure)
fetch_financial_data(c, ticker, fetch, p) ==
    IF ticker = "None" \/ fetch # "ok" THEN EmptyDict
    ELSE [company |-> c,
          ticker |-> ticker,
          price_change_percent |-> p,
          market_cap |-> [currency |-> "USD", formatted |-> "$1.00B USD"]]

----------------------------------------------------------------------------
(* SentimentAnalystAgent *)

\* detect_lawsuits searching the text as it is written
detect_lawsuits_case_sensitive(text) ==
    \E i \in 1..Len(lawsuit_keywords) : Contains(lawsuit_keywords[i], text)

\* detect_lawsuits
detect_lawsuits(text) ==
    \E i \in 1..Len(lawsuit_keywords) : Contains(lawsuit_keywords[i], Lower(text))

\* the score of a title before clamping: the model's polarity plus 0.1 for every
\* positive indicator in the title and minus 0.1 for every negative one
AdjustedScore(title, base) ==
    base + (Milli \div 10) * CountIn(positive_indicators, Lower(title))
         - (Milli \div 10) * CountIn(negative_indicators, Lower(title))

\* final_score without the normalisation of line 171
UnclampedScore(title, base) == AdjustedScore(title, base)

\* final_score = max(min(base_score, 1.0), -1.0)
FinalScore(title, base) == Max(Min(AdjustedScore(title, base), Milli), -Milli)

EmptyAggregate == [articles |-> << >>, overall_score |-> 0, legal_concerns |-> << >>]

\* _analyze_news_sentiment with the severity high from -0.3 on, not only below it
_analyze_news_sentiment_inclusive(rawFile, bases, nlp) ==
    IF rawFile = << >> THEN EmptyAggregate
    ELSE
    LET news == Get(rawFile[1], "news", << >>)
        n == Len(news)
    IN  IF n = 0 THEN EmptyAggregate
        ELSE IF \E i \in 1..n : "title" \notin DOMAIN news[i] THEN EmptyAggregate
        ELSE IF nlp # "ok" THEN EmptyAggregate
        ELSE IF \E i \in 1..n : "link" \notin DOMAIN news[i] THEN EmptyAggregate
        ELSE
        [articles |->
            [i \in 1..n |->
                [title |-> news[i].title,
                 sentiment_score |-> FinalScore(news[i].title, bases[i]),
                 link |-> news[i].link,
                 has_legal_concern |-> detect_lawsuits(news[i].title)]],
         overall_score |->
            RoundDiv(SumSeq([i \in 1..n |-> FinalScore(news[i].title, bases[i])]), n),
         legal_concerns |->
            Flatten([i \in 1..n |->
                IF detect_lawsuits(news[i].title)
                THEN <<[title |-> news[i].title,
                        link |-> news[i].link,
                        concern_type |-> "potential_lawsuit",
                        severity |->
                            IF AdjustedScore(news[i].title, bases[i]) <= -3 * (Milli \div 10)
                            THEN "high" ELSE "medium"]>>
                ELSE << >>])]

\* _analyze_news_sentiment whose handler returns sentiment_result as the loop left
\* it: the records appended before the first article without a link
_analyze_news_sentiment_partial(rawFile, bases, nlp) ==
    IF rawFile = << >> THEN EmptyAggregate
    ELSE
    LET news == Get(rawFile[1], "news", << >>)
        n == Len(news)
        done == IF \E i \in 1..n : "link" \notin DOMAIN news[i]
                THEN (CHOOSE i \in 1..n : /\ "link" \notin DOMAIN news[i]
                                          /\ \A j \in 1..(i - 1) : "link" \in DOMAIN news[j])
                     - 1
                ELSE n
    IN  IF n = 0 THEN EmptyAggregate
        ELSE IF \E i \in 1..n : "title" \notin DOMAIN news[i] THEN EmptyAggregate
        ELSE IF nlp # "ok" THEN EmptyAggregate
        ELSE
        [articles |->
            [i \in 1..done |->
                [title |-> news[i].title,
                 sentiment_score |-> FinalScore(news[i].title, bases[i]),
                 link |-> news[i].link,
                 has_legal_concern |-> detect_lawsuits(news[i].title)]],
         overall_score |->
            IF done = n
            THEN RoundDiv(SumSeq([i \in 1..n |-> FinalScore(news[i].title, bases[i])]), n)
            ELSE 0,
         legal_concerns |->
            Flatten([i \in 1..done |->
                IF detect_lawsuits(news[i].title)
                THEN <<[title |-> news[i].title,
                        link |-> news[i].link,
                        concern_type |-> "potential_lawsuit",
                        severity |->
                            IF AdjustedScore(news[i].title, bases[i]) < -3 * (Milli \div 10)
                            THEN "high" ELSE "medium"]>>
                ELSE << >>])]

\* _analyze_news_sentiment: rawFile is the file raw_data.json, bases the model's
\* polarity of each title, nlp how the language library ends
_analyze_news_sentiment(rawFile, bases, nlp) ==
    IF rawFile = << >> THEN EmptyAggregate
    ELSE
    LET news == Get(rawFile[1], "news", << >>)
        n == Len(news)
    IN  IF n = 0 THEN EmptyAggregate
        ELSE IF \E i \in 1..n : "title" \notin DOMAIN news[i] THEN EmptyAggregate
        ELSE IF nlp # "ok" THEN EmptyAggregate
        ELSE IF \E i \in 1..n : "link" \notin DOMAIN news[i] THEN EmptyAggregate
        ELSE
        [articles |->
            [i \in 1..n |->
                [title |-> news[i].title,
                 sentiment_score |-> FinalScore(news[i].title, bases[i]),
                 link |-> news[i].link,
                 has_legal_concern |-> detect_lawsuits(news[i].title)]],
         overall_score |->
            RoundDiv(SumSeq([i \in 1..n |-> FinalScore(news[i].title, bases[i])]), n),
         legal_concerns |->
            Flatten([i \in 1..n |->
                IF detect_lawsuits(news[i].title)
                THEN <<[title |-> news[i].title,
                        link |-> news[i].link,
                        concern_type |-> "potential_lawsuit",
                        severity |->
                            IF AdjustedScore(news[i].title, bases[i]) < -3 * (Milli \div 10)
                            THEN "high" ELSE "medium"]>>
                ELSE << >>])]

\* analyze_sentiment: the sentiment document
analyze_sentiment(c, rawFile, bases, nlp) ==
    LET news_sentiment == _analyze_news_sentiment(rawFile, bases, nlp)
    IN  [company |-> c,
         sentiment_analysis |->
            [news_sentiment |-> news_sentiment,
             social_sentiment |-> << >>,
             combined_score |-> 0,
             articles_analyzed |-> Len(news_sentiment.articles),
             social_posts_analyzed |-> 0,
             summary |-> ""],
         legal_concerns |-> << >>,
         potential_risks |-> << >>]

----------------------------------------------------------------------------
(* DataAnalystAgent *)

\* _analyze_market_trends with >= in place of > in the two tests of the movement
_analyze_market_trends_inclusive(financial_data) ==
    LET price_change == Get(financial_data, "price_change_percent", 0)
        market_cap == Get(financial_data, "market_cap_formatted", "N/A")
    IN  (IF Abs(price_change) >= 5 * Cent
         THEN <<[type |-> "price_movement",
                 description |-> "Significant price movement",
                 impact |-> IF Abs(price_change) >= 10 * Cent THEN "high" ELSE "medium"]>>
         ELSE << >>)
        \o
        (IF market_cap # "N/A"
         THEN <<[type |-> "market_position",
                 description |-> "Market cap",
                 impact |-> IF price_change > -5 * Cent THEN "stable" ELSE "concerning"]>>
         ELSE << >>)

\* _analyze_market_trends
_analyze_market_trends(financial_data) ==
    LET price_change == Get(financial_data, "price_change_percent", 0)
        market_cap == Get(financial_data, "market_cap_formatted", "N/A")
    IN  (IF Abs(price_change) > 5 * Cent
         THEN <<[type |-> "price_movement",
                 description |-> "Significant price movement",
                 impact |-> IF Abs(price_change) > 10 * Cent THEN "high" ELSE "medium"]>>
         ELSE << >>)
        \o
        (IF market_cap # "N/A"
         THEN <<[type |-> "market_position",
                 description |-> "Market cap",
                 impact |-> IF price_change > -5 * Cent THEN "stable" ELSE "concerning"]>>
         ELSE << >>)

\* the number of articles whose title contains the name, whatever the letter case
Mentions(name, news) ==
    Cardinality({i \in 1..Len(news) : Contains(Lower(name), Lower(news[i].title))})

\* _analyze_competitors comparing the name and the title as they are written
_analyze_competitors_case_sensitive(c, news_data) ==
    LET competitors == Lookup(competitor_map, c, << >>)
        news == Get(news_data, "news", << >>)
        count(k) == Cardinality({i \in 1..Len(news) : Contains(competitors[k], news[i].title)})
    IN  Flatten([k \in 1..Len(competitors) |->
                IF count(k) > 0
                THEN <<[competitor |-> competitors[k],
                        mentions |-> count(k),
                        relevance |-> IF count(k) > 2 THEN "high" ELSE "medium"]>>
                ELSE << >>])

\* _analyze_competitors: an article without a title raises in the first count,
\* which is caught with nothing appended yet
_analyze_competitors(c, news_data) ==
    LET competitors == Lookup(competitor_map, c, << >>)
        news == Get(news_data, "news", << >>)
    IN  IF \E i \in 1..Len(news) : "title" \notin DOMAIN news[i] THEN << >>
        ELSE Flatten([k \in 1..Len(competitors) |->
                IF Mentions(competitors[k], news) > 0
                THEN <<[competitor |-> competitors[k],
                        mentions |-> Mentions(competitors[k], news),
                        relevance |-> IF Mentions(competitors[k], news) > 2
                                      THEN "high" ELSE "medium"]>>
                ELSE << >>])

\* _identify_opportunities
_identify_opportunities(financial_data, sentiment_data) ==
    (IF Get(financial_data, "price_change_percent", 0) < 0
     THEN <<[type |-> "investment",
             description |-> "Potential buying opportunity",
             confidence |-> "medium"]>>
     ELSE << >>)
    \o
    (IF Get(Get(sentiment_data, "sentiment_analysis", EmptyDict), "overall_score", 0)
            > 2 * (Milli \div 10)
     THEN <<[type |-> "market_sentiment",
             description |-> "Positive market sentiment indicates growth potential",
             confidence |-> "high"]>>
     ELSE << >>)

\* _analyze_risks
_analyze_risks(financial_data, sentiment_data) ==
    (IF Get(financial_data, "price_change_percent", 0) < -5 * Cent
     THEN <<[type |-> "market_risk",
             description |-> "Significant price decline",
             severity |-> "high"]>>
     ELSE << >>)
    \o
    (IF Get(sentiment_data, "legal_concerns", << >>) # << >>
     THEN <<[type |-> "legal_risk",
             description |-> "Active legal concerns detected",
             severity |-> "high"]>>
     ELSE << >>)

\* setup_models of DataAnalystAgent (ResearchAgent and FinancialAnalystAgent have
\* the same): without the key the attribute model is never assigned ("unset");
\* with it, None when the library raises
setup_models(key, genai) ==
    IF ~key THEN "unset" ELSE IF genai = "ok" THEN "set" ELSE "None"

\* _generate_summary
_generate_summary(gen) == IF gen = "ok" THEN "generated" ELSE "Summary generation failed"

\* analyze_data over documents kept apart by company: a document of another
\* company is not loaded
analyze_data_own_company(c, store, model, gen) ==
    LET own(f) == IF Exists(store, f) /\ store[f][1].company = c
                  THEN store[f][1] ELSE EmptyDict
        financial_data == own("financial_data.json")
        news_data == own("raw_data.json")
        sentiment_data == own("sentiment_data.json")
    IN  IF model = "unset" THEN EmptyDict
        ELSE [company |-> c,
              market_trends |-> _analyze_market_trends(financial_data),
              competitor_analysis |-> _analyze_competitors(c, news_data),
              opportunities |-> _identify_opportunities(financial_data, sentiment_data),
              risk_factors |-> _analyze_risks(financial_data, sentiment_data),
              summary |-> IF model = "set" THEN _generate_summary(gen) ELSE ""]

\* analyze_data: reading the unassigned attribute model raises AttributeError,
\* which the handler answers with {}
analyze_data(c, store, model, gen) ==
    LET financial_data == _load_json(store, "financial_data.json")
        news_data == _load_json(store, "raw_data.json")
        sentiment_data == _load_json(store, "sentiment_data.json")
    IN  IF model = "unset" THEN EmptyDict
        ELSE [company |-> c,
              market_trends |-> _analyze_market_trends(financial_data),
              competitor_analysis |-> _analyze_competitors(c, news_data),
              opportunities |-> _identify_opportunities(financial_data, sentiment_data),
              risk_factors |-> _analyze_risks(financial_data, sentiment_data),
              summary |-> IF model = "set" THEN _generate_summary(gen) ELSE ""]

----------------------------------------------------------------------------
(* RegulatoryAnalystAgent *)

\* setup_model: the model when the key is set, None otherwise; a failure of the
\* library is not handled here and leaves the constructor as an exception
setup_model(key, genai) ==
    IF ~key THEN "None" ELSE IF genai = "ok" THEN "set" ELSE "raised"

\* the mentions of one article cut after the first keyword found
MentionsOfFirstKeyword(article, keywords) ==
    LET found == {k \in 1..Len(keywords) :
                    Contains(Lower(keywords[k]), Lower(Get(article, "title", << >>)))}
    IN  IF found = {} THEN << >>
        ELSE <<[regulation |-> keywords[CHOOSE k \in found : \A j \in found : k <= j],
                title |-> article.title,
                link |-> article.link]>>

\* the mentions of one article: one per keyword of the company found in its title
MentionsOf(article, keywords) ==
    Flatten([k \in 1..Len(keywords) |->
        IF Contains(Lower(keywords[k]), Lower(Get(article, "title", << >>)))
        THEN <<[regulation |-> keywords[k],
                title |-> article.title,
                link |-> article.link]>>
        ELSE << >>])

\* analyze_regulations asking the model for a summary without looking at the mentions
analyze_regulations_always_summarised(c, store, model, gen) ==
    IF ~Exists(store, "raw_data.json") THEN EmptyDict
    ELSE
    LET news == Get(store["raw_data.json"][1], "news", << >>)
        keywords == Lookup(regulatory_map, c, << >>)
        regulatory_mentions == Flatten([i \in 1..Len(news) |-> MentionsOf(news[i], keywords)])
    IN  [company |-> c,
         regulatory_mentions |-> regulatory_mentions,
         compliance_risks |-> << >>,
         summary |-> IF model = "set"
                     THEN (IF gen = "ok" THEN "generated" ELSE "Analysis generation failed")
                     ELSE ""]

\* analyze_regulations
analyze_regulations(c, store, model, gen) ==
    IF ~Exists(store, "raw_data.json") THEN EmptyDict
    ELSE
    LET news == Get(store["raw_data.json"][1], "news", << >>)
        keywords == Lookup(regulatory_map, c, << >>)
        regulatory_mentions == Flatten([i \in 1..Len(news) |-> MentionsOf(news[i], keywords)])
    IN  [company |-> c,
         regulatory_mentions |-> regulatory_mentions,
         compliance_risks |-> << >>,
         summary |-> IF model = "set" /\ regulatory_mentions # << >>
                     THEN (IF gen = "ok" THEN "generated" ELSE "Analysis generation failed")
                     ELSE ""]

----------------------------------------------------------------------------
(* ReportWriterAgent *)

\* _load_data: the four documents the report reads, {} for one that cannot be loaded
ReportInputs == [research |-> "raw_data.json", financial |-> "financial_data.json",
                 sentiment |-> "sentiment_data.json", analysis |-> "analysis_data.json"]

_load_data(store) == [k \in DOMAIN ReportInputs |-> _load_json(store, ReportInputs[k])]

NoTitle == <<"N","o"," ","t","i","t","l","e">>

\* a section: its header, the placeholder paragraph ("" when there is none) and
\* the paragraphs of data
Section(header, placeholder, items) ==
    [header |-> header, placeholder |-> placeholder, items |-> items]

\* _create_news_section without the slice [:5]
_create_news_section_unsliced(data) ==
    LET news == Get(data.research, "news", << >>)
    IN  IF news # << >>
        THEN Section("Recent News", "",
                     [i \in 1..Len(news) |-> Get(news[i], "title", NoTitle)])
        ELSE Section("Recent News", "No recent news available", << >>)

\* _create_news_section: the titles of the first five articles
_create_news_section(data) ==
    LET news == Get(data.research, "news", << >>)
    IN  IF news # << >>
        THEN Section("Recent News", "",
                     [i \in 1..Min(5, Len(news)) |-> Get(news[i], "title", NoTitle)])
        ELSE Section("Recent News", "No recent news available", << >>)

\* the Python type of financial_data.get('market_cap', 'N/A'): the snapshot holds
\* a dict under market_cap, the default is a string
TypeOfMarketCap(financial_data) ==
    IF "market_cap" \in DOMAIN financial_data THEN "dict" ELSE "str"

\* format(value, ",") is defined for numbers: a dict raises TypeError, a string
\* ValueError
CommaFormatRaises(type) == type \notin {"int", "float"}

\* _create_financial_section
_create_financial_section(data) ==
    IF data.financial # EmptyDict
    THEN IF CommaFormatRaises(TypeOfMarketCap(data.financial))
         THEN [raised |-> TRUE]
         ELSE Section("Financial Analysis", "", <<"Current Price", "Price Change", "Market Cap">>)
    ELSE Section("Financial Analysis", "No financial data available", << >>)

\* _create_sentiment_section: the score shown is << >> for the default 'N/A'
_create_sentiment_section(data) ==
    LET sentiment_data == Get(data.sentiment, "sentiment_analysis", EmptyDict)
        legal_concerns == Get(data.sentiment, "legal_concerns", << >>)
    IN  IF sentiment_data # EmptyDict
        THEN [header |-> "Market Sentiment",
              placeholder |-> "",
              score |-> IF "overall_score" \in DOMAIN sentiment_data
                        THEN <<sentiment_data.overall_score>> ELSE << >>,
              items |-> [i \in 1..Len(legal_concerns) |->
                            Get(legal_concerns[i], "description", "N/A")]]
        ELSE [header |-> "Market Sentiment",
              placeholder |-> "No sentiment data available",
              score |-> << >>,
              items |-> << >>]

\* _create_analysis_section: the descriptions of the trends and of the opportunities
_create_analysis_section(data) ==
    LET trends == Get(data.analysis, "market_trends", << >>)
        opportunities == Get(data.analysis, "opportunities", << >>)
    IN  IF data.analysis # EmptyDict
        THEN Section("Market Analysis", "",
                     [i \in 1..Len(trends) |-> Get(trends[i], "description", "N/A")]
                     \o [i \in 1..Len(opportunities) |->
                            Get(opportunities[i], "description", "N/A")])
        ELSE Section("Market Analysis", "No market analysis available", << >>)

\* generate_report: << >> when an exception was caught (the method returns False),
\* else <<the report written>> (it returns True)
generate_report(c, store, io) ==
    LET data == _load_data(store)
    IN  IF io # "ok" THEN << >>
        ELSE IF "raised" \in DOMAIN _create_financial_section(data) THEN << >>
        ELSE <<[company |-> c,
                news |-> _create_news_section(data),
                financial |-> _create_financial_section(data),
                sentiment |-> _create_sentiment_section(data),
                analysis |-> _create_analysis_section(data)]>>

----------------------------------------------------------------------------
(* run_market_mind *)

\* the same calls with the first and the third exchanged
StageOrderSwapped == <<"SentimentAnalystAgent", "FinancialAnalystAgent", "ResearchAgent",
                       "DataAnalystAgent", "RegulatoryAnalystAgent", "ReportWriterAgent">>

\* the order of the calls in run_market_mind
StageOrder == <<"ResearchAgent", "FinancialAnalystAgent", "SentimentAnalystAgent",
                "DataAnalystAgent", "RegulatoryAnalystAgent", "ReportWriterAgent">>

\* io is how the write of the stage ended, "none" when the stage did not write
NoReturn == [stage |-> "", raised |-> FALSE, value |-> EmptyDict, io |-> "none"]

\* the state of a call of run_market_mind that has not begun
NotRunning ==
    [pc |-> 0, company |-> "", ticker_symbol |-> "", hasKey |-> FALSE, executed |-> << >>,
     ret |-> NoReturn, result |-> "", written |-> {}, staleReads |-> {},
     polarity |-> << >>, self |-> 0]

\* run_market_mind is about to call the stage
At(stage) == pc \in 1..Len(StageOrder) /\ StageOrder[pc] = stage

\* a run_market_mind that returns what the run() of the ReportWriterAgent returned
ReturnedReportResult(stage, value, io) ==
    /\ executed' = Append(executed, stage)
    /\ ret' = [stage |-> stage, raised |-> FALSE, value |-> value, io |-> io]
    /\ pc' = pc + 1
    /\ result' = IF pc = Len(StageOrder)
                 THEN (IF value = TRUE THEN "True" ELSE "False")
                 ELSE ""
    /\ UNCHANGED <<self, other>>

\* the stage's run() returned value: the next call follows, and after the last
\* one run_market_mind returns True
Returned(stage, value, io) ==
    /\ executed' = Append(executed, stage)
    /\ ret' = [stage |-> stage, raised |-> FALSE, value |-> value, io |-> io]
    /\ pc' = pc + 1
    /\ result' = IF pc = Len(StageOrder) THEN "True" ELSE ""
    /\ UNCHANGED <<self, other>>

\* the stage's run() raised: the handler of run_market_mind returns False
Raised(stage, io) ==
    /\ executed' = Append(executed, stage)
    /\ ret' = [stage |-> stage, raised |-> TRUE, value |-> EmptyDict, io |-> io]
    /\ pc' = Len(StageOrder) + 1
    /\ result' = "False"
    /\ UNCHANGED <<self, other>>

\* the stage's constructor raised before run() was called
ConstructorRaised ==
    /\ pc' = Len(StageOrder) + 1
    /\ result' = "False"
    /\ UNCHANGED <<executed, ret, self, other>>

\* the documents among the inputs that exist and were written last by another run
Stale(inputs) == {f \in inputs : Exists(files, f) /\ author[f] # self}

\* run() of the four agents with save_data: the result is saved only if it is
\* not empty; os.makedirs is called outside save_data's try, open inside it
RunAndSave(stage, f, data, io, inputs) ==
    /\ staleReads' = staleReads \cup Stale(inputs)
    /\ IF data # EmptyDict /\ io = "makedirs_fails"
       THEN Raised(stage, io) /\ UNCHANGED <<files, written, author>>
       ELSE /\ Returned(stage, data, IF data # EmptyDict THEN io ELSE "none")
            /\ IF data # EmptyDict /\ io = "ok"
               THEN /\ files' = [files EXCEPT ![f] = <<data>>]
                    /\ written' = written \cup {f}
                    /\ author' = [author EXCEPT ![f] = self]
               ELSE UNCHANGED <<files, written, author>>
    /\ UNCHANGED <<reports, company, ticker_symbol, hasKey, runs>>

\* run_market_mind without the return of line 29
run_market_mind_unvalidated(companies, keys, maxRuns) ==
    /\ pc \in {0, Len(StageOrder) + 1}
    /\ runs < maxRuns
    /\ runs' = runs + 1
    /\ self' = runs + 1
    /\ \E c \in companies, key \in keys, yf \in YfAnswers :
        /\ company' = c
        /\ ticker_symbol' = _get_ticker_symbol(c, yf)
        /\ hasKey' = key
        /\ executed' = << >>
        /\ ret' = NoReturn
        /\ written' = {}
        /\ staleReads' = {}
        /\ polarity' = << >>
        /\ pc' = 1
        /\ result' = ""
    /\ UNCHANGED <<files, reports, author, other>>

\* the call of run_market_mind up to the validation of the company: a new
\* FinancialAnalystAgent resolves the ticker, and without one the function
\* returns None
run_market_mind(companies, keys, maxRuns) ==
    /\ pc \in {0, Len(StageOrder) + 1}
    /\ runs < maxRuns
    /\ runs' = runs + 1
    /\ self' = runs + 1
    /\ \E c \in companies, key \in keys, yf \in YfAnswers :
        /\ company' = c
        /\ ticker_symbol' = _get_ticker_symbol(c, yf)
        /\ hasKey' = key
        /\ executed' = << >>
        /\ ret' = NoReturn
        /\ written' = {}
        /\ staleReads' = {}
        /\ polarity' = << >>
        /\ IF _get_ticker_symbol(c, yf) = "None"
           THEN pc' = Len(StageOrder) + 1 /\ result' = "None"
           ELSE pc' = 1 /\ result' = ""
    /\ UNCHANGED <<files, reports, author, other>>

\* ResearchAgent(company).run(): everything is inside one try
ResearchAgent_run(newsLists, ios) ==
    /\ At("ResearchAgent")
    /\ \E news \in newsLists, io \in ios :
        LET news_data == [company |-> company, news |-> news]
        IN  IF io = "ok"
            THEN /\ files' = [files EXCEPT !["raw_data.json"] = <<news_data>>]
                 /\ written' = written \cup {"raw_data.json"}
                 /\ author' = [author EXCEPT !["raw_data.json"] = self]
                 /\ Returned("ResearchAgent", news_data, io)
            ELSE /\ UNCHANGED <<files, written, author>>
                 /\ Returned("ResearchAgent", EmptyDict, io)
    /\ UNCHANGED <<reports, company, ticker_symbol, hasKey, staleReads, runs, polarity>>

\* FinancialAnalystAgent(company).run(): the constructor resolves the ticker again
FinancialAnalystAgent_run(prices, fetches, ios) ==
    /\ At("FinancialAnalystAgent")
    /\ \E yf \in YfAnswers, fetch \in fetches, p \in prices, io \in ios :
        RunAndSave("FinancialAnalystAgent", "financial_data.json",
                   fetch_financial_data(company, _get_ticker_symbol(company, yf), fetch, p),
                   io, {})
    /\ UNCHANGED polarity

\* SentimentAnalystAgent(company).run()
SentimentAnalystAgent_run(polarities, nlps, ios) ==
    /\ At("SentimentAnalystAgent")
    /\ \E bases \in [1..Len(Get(_load_json(files, "raw_data.json"), "news", << >>))
                        -> polarities],
          nlp \in nlps, io \in ios :
        /\ RunAndSave("SentimentAnalystAgent", "sentiment_data.json",
                      analyze_sentiment(company, files["raw_data.json"], bases, nlp),
                      io, {"raw_data.json"})
        /\ polarity' = IF nlp = "ok" THEN bases ELSE << >>

\* DataAnalystAgent(company).run()
DataAnalystAgent_run(calls, ios) ==
    /\ At("DataAnalystAgent")
    /\ \E genai \in calls, gen \in calls, io \in ios :
        RunAndSave("DataAnalystAgent", "analysis_data.json",
                   analyze_data(company, files, setup_models(hasKey, genai), gen),
                   io, {"financial_data.json", "raw_data.json", "sentiment_data.json"})
    /\ UNCHANGED polarity

\* RegulatoryAnalystAgent(company).run()
RegulatoryAnalystAgent_run(calls, ios) ==
    /\ At("RegulatoryAnalystAgent")
    /\ \E genai \in calls, gen \in calls, io \in ios :
        IF setup_model(hasKey, genai) = "raised"
        THEN /\ ConstructorRaised
             /\ UNCHANGED <<files, reports, company, ticker_symbol, hasKey, written,
                             staleReads, runs, author>>
        ELSE RunAndSave("RegulatoryAnalystAgent", "regulatory_data.json",
                        analyze_regulations(company, files, setup_model(hasKey, genai), gen),
                        io, {"raw_data.json"})
    /\ UNCHANGED polarity

\* ReportWriterAgent(company).run(): True when the report was written
ReportWriterAgent_run(ios) ==
    /\ At("ReportWriterAgent")
    /\ \E io \in ios :
        LET report == generate_report(company, files, io)
        IN  /\ Returned("ReportWriterAgent", report # << >>, io)
            /\ IF report # << >>
               THEN /\ reports' = [reports EXCEPT ![company] = report]
                    /\ written' = written \cup {"report"}
               ELSE UNCHANGED <<reports, written>>
            /\ staleReads' = staleReads \cup Stale({ReportInputs[k] : k \in DOMAIN ReportInputs})
    /\ UNCHANGED <<files, company, ticker_symbol, hasKey, runs, polarity, author>>

----------------------------------------------------------------------------
(* One call of run_market_mind on an empty directory "data", in an environment *)
(* where every external call and every write may fail                         *)

Init ==
    /\ files = [f \in FileNames |-> << >>]
    /\ reports = [c \in Companies |-> << >>]
    /\ pc = 0
    /\ company = ""
    /\ ticker_symbol = ""
    /\ hasKey = FALSE
    /\ executed = << >>
    /\ ret = NoReturn
    /\ result = ""
    /\ written = {}
    /\ staleReads = {}
    /\ runs = 0
    /\ polarity = << >>
    /\ self = 0
    /\ author = [f \in FileNames |-> 0]
    /\ other = NotRunning

Next ==
    \/ run_market_mind(Companies, BOOLEAN, 1)
    \/ ResearchAgent_run(NewsLists, IOResults)
    \/ FinancialAnalystAgent_run(PriceChanges, CallResults, IOResults)
    \/ SentimentAnalystAgent_run(Polarities, CallResults, IOResults)
    \/ DataAnalystAgent_run(CallResults, IOResults)
    \/ RegulatoryAnalystAgent_run(CallResults, IOResults)
    \/ ReportWriterAgent_run(IOResults)

Spec == Init /\ [][Next]_vars

----------------------------------------------------------------------------
(* Calls of run_market_mind one after the other on the same directories: the  *)
(* external calls may fail, the writes succeed                                *)

\* the news of these runs: nothing, or one article
OneArticle == {<< >>, <<[title |-> <<"S","u","e","d">>, link |-> "u1"]>>}

NextRuns ==
    \/ run_market_mind(Companies, BOOLEAN, MaxRuns)
    \/ ResearchAgent_run(OneArticle, {"ok"})
    \/ FinancialAnalystAgent_run({-600}, CallResults, {"ok"})
    \/ SentimentAnalystAgent_run({150}, {"ok"}, {"ok"})
    \/ DataAnalystAgent_run(CallResults, {"ok"})
    \/ RegulatoryAnalystAgent_run(CallResults, {"ok"})
    \/ ReportWriterAgent_run({"ok"})

SpecRuns == Init /\ [][NextRuns]_vars

----------------------------------------------------------------------------
(* One call of run_market_mind in an environment where the writes and the     *)
(* libraries work, over the price changes around the thresholds of the rules  *)

PriceChangesAround ==
    {0, 1, 499, 500, 501, 999, 1000, 1001, 5000,
     -1, -499, -500, -501, -999, -1000, -1001, -5000}

NextData ==
    \/ run_market_mind(Companies, BOOLEAN, 1)
    \/ ResearchAgent_run(NewsLists, {"ok"})
    \/ FinancialAnalystAgent_run(PriceChangesAround, CallResults, {"ok"})
    \/ SentimentAnalystAgent_run(Polarities, {"ok"}, {"ok"})
    \/ DataAnalystAgent_run(CallResults, {"ok"})
    \/ RegulatoryAnalystAgent_run({"ok"}, {"ok"})
    \/ ReportWriterAgent_run({"ok"})

SpecData == Init /\ [][NextData]_vars

----------------------------------------------------------------------------
(* The order of the stages *)

\* the stage that writes each document
WriterOf ==
    [f \in FileNames \cup {"report"} |->
        CASE f = "raw_data.json" -> "ResearchAgent"
          [] f = "financial_data.json" -> "FinancialAnalystAgent"
          [] f = "sentiment_data.json" -> "SentimentAnalystAgent"
          [] f = "analysis_data.json" -> "DataAnalystAgent"
          [] f = "regulatory_data.json" -> "RegulatoryAnalystAgent"
          [] f = "report" -> "ReportWriterAgent"]

\* s is among the stages that have run in the current call
HasRun(s) == \E i \in 1..Len(executed) : executed[i] = s

\* C1: in a run whose ticker resolved, the stages run in the order Research,
\* Financial, Sentiment, Data, Regulatory, Report, one at a time: the stages that
\* have run are the first ones of that order with none skipped, the stage about
\* to be called is the next of the order, a document is written by this run only
\* once its stage has run, and a run that returns True has run all six
C1_StagesInFixedOrder ==
    LET order == <<"ResearchAgent", "FinancialAnalystAgent", "SentimentAnalystAgent",
                   "DataAnalystAgent", "RegulatoryAnalystAgent", "ReportWriterAgent">>
        needs == [s \in {order[i] : i \in 1..6} |->
                    CASE s = "SentimentAnalystAgent" -> {"ResearchAgent"}
                      [] s = "RegulatoryAnalystAgent" -> {"ResearchAgent"}
                      [] s = "DataAnalystAgent" ->
                            {"ResearchAgent", "FinancialAnalystAgent", "SentimentAnalystAgent"}
                      [] s = "ReportWriterAgent" ->
                            {"ResearchAgent", "FinancialAnalystAgent", "SentimentAnalystAgent",
                             "DataAnalystAgent", "RegulatoryAnalystAgent"}
                      [] OTHER -> {}]
    IN  /\ Len(executed) <= 6
        /\ \A i \in 1..Len(executed) : executed[i] = order[i]
        /\ \A i \in 1..Len(executed) :
              needs[executed[i]] \subseteq {executed[j] : j \in 1..(i - 1)}
        /\ pc \in 1..6 => Len(executed) = pc - 1
        /\ \A f \in written : HasRun(WriterOf[f])
        /\ result = "True" => executed = order

\* a run that went through the six stages and returned True
C1_Witness ==
    /\ pc = 7
    /\ result = "True"
    /\ Len(executed) = 6
    /\ written = FileNames

\* C2: when the ticker of the company is not resolved, run_market_mind returns
\* None at once: no stage runs, and no document and no report is created or
\* modified
C2_UnresolvedTickerAborts ==
    [][ticker_symbol' = "None" =>
            /\ result' = "None"
            /\ pc' = 7
            /\ executed' = << >>
            /\ files' = files
            /\ reports' = reports]_vars

\* the second call is for a company without a ticker, with the documents of the
\* first call in the directory
C2_Witness ==
    /\ runs = 2
    /\ ticker_symbol = "None"
    /\ result = "None"
    /\ \A f \in FileNames : Exists(files, f)

\* C3: no failure inside a stage stops the run: once the ticker is resolved,
\* every stage returns without raising, the six stages all run, and
\* run_market_mind does not return False
C3_NoStageFailureHalts ==
    /\ ~ret.raised
    /\ result # "False"
    /\ (pc = 7 /\ ticker_symbol # "None") => Len(executed) = 6

----------------------------------------------------------------------------
(* The documents of the store *)

\* C4: when a run whose ticker resolved has completed, every document in the
\* store was written by that run and carries its company, and no stage of the
\* run has read a document left by an earlier run
C4_StoreIsOfLatestRun ==
    (pc = 7 /\ result = "True") =>
        /\ \A f \in FileNames :
              Exists(files, f) => f \in written /\ files[f][1].company = company
        /\ staleReads = {}

\* the documents f among fs are all missing from the store
Missing(fs) == \A f \in fs : ~Exists(files, f)

\* the stage that has just run met no failure of the file system
WritesWork == ret.io \in {"ok", "none"}

\* the stage that has just run wrote what it returned in the document f
Persisted(f) ==
    /\ ret.io = "ok"
    /\ files[f] = <<ret.value>>

\* C5: a consuming stage whose input documents are missing does not raise and
\* returns its empty default, which it persists when the file system works: the
\* sentiment document with the aggregate of no article and score 0, the analysis
\* with four empty collections, the regulatory finding with no mention and an
\* empty summary
C5_MissingInputsGiveEmptyDefault ==
    /\ (ret.stage = "SentimentAnalystAgent" /\ Missing({"raw_data.json"}) /\ WritesWork) =>
            /\ ~ret.raised
            /\ ret.value # EmptyDict
            /\ ret.value.sentiment_analysis.news_sentiment
                    = [articles |-> << >>, overall_score |-> 0, legal_concerns |-> << >>]
            /\ Persisted("sentiment_data.json")
    /\ (/\ ret.stage = "DataAnalystAgent"
        /\ Missing({"financial_data.json", "raw_data.json", "sentiment_data.json"})
        /\ WritesWork) =>
            /\ ~ret.raised
            /\ ret.value # EmptyDict
            /\ ret.value.market_trends = << >>
            /\ ret.value.competitor_analysis = << >>
            /\ ret.value.opportunities = << >>
            /\ ret.value.risk_factors = << >>
            /\ Persisted("analysis_data.json")
    /\ (ret.stage = "RegulatoryAnalystAgent" /\ Missing({"raw_data.json"}) /\ WritesWork) =>
            /\ ~ret.raised
            /\ ret.value # EmptyDict
            /\ ret.value.regulatory_mentions = << >>
            /\ ret.value.summary = ""
            /\ Persisted("regulatory_data.json")
    /\ ret.stage = "ReportWriterAgent" => ~ret.raised

\* C6: whatever documents are present, when the report file can be written
\* generate_report returns True and the report of the company is written by this
\* run with its four sections, each one with the placeholder exactly when its
\* document is missing
C6_ReportAlwaysWritten ==
    (ret.stage = "ReportWriterAgent" /\ ret.io = "ok") =>
        /\ ret.value = TRUE
        /\ "report" \in written
        /\ reports[company] # << >>
        /\ reports[company][1].company = company
        /\ \A k \in {"financial", "sentiment", "analysis"} :
              (reports[company][1][k].placeholder # "") <=> ~Exists(files, ReportInputs[k])
        /\ ~Exists(files, "raw_data.json") => reports[company][1].news.placeholder # ""

----------------------------------------------------------------------------
(* The rules of the analysis. Price changes are in hundredths of a percent and *)
(* scores in thousandths: 500 is 5 %, 200 is 0.2                               *)

\* the DataAnalystAgent has just run and returned an analysis
AnalysisReturned == ret.stage = "DataAnalystAgent" /\ ret.value # EmptyDict

\* the price change of the financial document in the store, 0 without one
PersistedPriceChange ==
    IF Exists(files, "financial_data.json")
    THEN files["financial_data.json"][1].price_change_percent ELSE 0

\* the aggregate of the sentiment document in the store, that of no article
\* without one
PersistedAggregate ==
    IF Exists(files, "sentiment_data.json")
    THEN files["sentiment_data.json"][1].sentiment_analysis.news_sentiment
    ELSE [articles |-> << >>, overall_score |-> 0, legal_concerns |-> << >>]

\* the entries of a collection that have the type t
OfType(entries, t) == SelectSeq(entries, LAMBDA e : e.type = t)

\* the entries of a collection reduced to their type and their field k
Reduced(entries, k) == {<<entries[i].type, entries[i][k]>> : i \in 1..Len(entries)}

\* C7: the market_trends of an analysis hold one price_movement entry when the
\* price change is above 5 % or below -5 % and none otherwise, and its impact is
\* high when the change is above 10 % or below -10 % and medium otherwise
C7_PriceMovementRule ==
    AnalysisReturned =>
        LET p == PersistedPriceChange
            moves == OfType(ret.value.market_trends, "price_movement")
        IN  /\ Len(moves) = (IF p > 500 \/ p < -500 THEN 1 ELSE 0)
            /\ moves # << >> =>
                  moves[1].impact = (IF p > 1000 \/ p < -1000 THEN "high" ELSE "medium")

\* an analysis of a price change of exactly 10 % or -10 %: a medium movement
C7_Witness ==
    /\ AnalysisReturned
    /\ PersistedPriceChange \in {1000, -1000}
    /\ OfType(ret.value.market_trends, "price_movement") # << >>
    /\ OfType(ret.value.market_trends, "price_movement")[1].impact = "medium"

\* C8: the opportunities of an analysis are exactly an investment entry of
\* confidence medium when the persisted price change is negative and a
\* market_sentiment entry of confidence high when the overall_score persisted
\* in the sentiment document is above 0.2
C8_OpportunitiesRule ==
    AnalysisReturned =>
        LET p == PersistedPriceChange
            s == PersistedAggregate.overall_score
            expected == (IF p < 0 THEN {<<"investment", "medium">>} ELSE {})
                        \cup (IF s > 200 THEN {<<"market_sentiment", "high">>} ELSE {})
        IN  /\ Reduced(ret.value.opportunities, "confidence") = expected
            /\ Len(ret.value.opportunities) = Cardinality(expected)

\* C9: the risk_factors of an analysis are exactly a market_risk entry of
\* severity high when the price change is below -5 % and a legal_risk entry of
\* severity high when the aggregate of the sentiment document holds a legal
\* concern
C9_RiskFactorsRule ==
    AnalysisReturned =>
        LET p == PersistedPriceChange
            expected == (IF p < -500 THEN {<<"market_risk", "high">>} ELSE {})
                        \cup (IF PersistedAggregate.legal_concerns # << >>
                              THEN {<<"legal_risk", "high">>} ELSE {})
        IN  /\ Reduced(ret.value.risk_factors, "severity") = expected
            /\ Len(ret.value.risk_factors) = Cardinality(expected)

\* the financial document in the store carries market_cap.formatted
HasFormattedMarketCap ==
    /\ Exists(files, "financial_data.json")
    /\ "market_cap" \in DOMAIN files["financial_data.json"][1]
    /\ "formatted" \in DOMAIN files["financial_data.json"][1].market_cap

\* C10: the market_trends of an analysis hold one market_position entry when the
\* financial document carries market_cap.formatted, of impact stable when the
\* price change is above -5 % and concerning otherwise, and none without it
C10_MarketPositionRule ==
    AnalysisReturned =>
        LET p == PersistedPriceChange
            positions == OfType(ret.value.market_trends, "market_position")
        IN  /\ Len(positions) = (IF HasFormattedMarketCap THEN 1 ELSE 0)
            /\ positions # << >> =>
                  positions[1].impact = (IF p > -500 THEN "stable" ELSE "concerning")

----------------------------------------------------------------------------
(* One call of run_market_mind in a working environment, over headlines that  *)
(* name competitors, regulations, lawsuit keywords and sentiment indicators,   *)
(* in several letter cases                                                    *)

MaxHeadlines == 3

\* "lg FTC": a competitor and a regulation of Samsung; "ftc Gdpr": two of its
\* regulations, not in the order of the keyword list; "DISPUTE": a lawsuit
\* keyword that is a negative indicator too; "growth Launch": two positive
\* indicators
Headlines == {
    [title |-> <<"l","g"," ","F","T","C">>, link |-> "h1"],
    [title |-> <<"f","t","c"," ","G","d","p","r">>, link |-> "h2"],
    [title |-> <<"D","I","S","P","U","T","E">>, link |-> "h3"],
    [title |-> <<"g","r","o","w","t","h"," ","L","a","u","n","c","h">>, link |-> "h4"] }

HeadlineLists == SeqUpTo(Headlines, MaxHeadlines)

NextText ==
    \/ run_market_mind(Companies, BOOLEAN, 1)
    \/ ResearchAgent_run(HeadlineLists, {"ok"})
    \/ FinancialAnalystAgent_run({300}, {"ok"}, {"ok"})
    \/ SentimentAnalystAgent_run({150}, {"ok"}, {"ok"})
    \/ DataAnalystAgent_run({"ok"}, {"ok"})
    \/ RegulatoryAnalystAgent_run(CallResults, {"ok"})
    \/ ReportWriterAgent_run({"ok"})

SpecText == Init /\ [][NextText]_vars

----------------------------------------------------------------------------
(* One call of run_market_mind for Apple in a working environment, over the   *)
(* headlines with and without lawsuit keywords and indicators and over the    *)
(* polarities at the ends of the range and around the severity threshold      *)

MaxScored == 3

ScoredHeadlines == {h \in Headlines : h.link \in {"h1", "h3", "h4"}}

ScoredLists == SeqUpTo(ScoredHeadlines, MaxScored)

\* the polarities of the sentiment model: the two ends of its range, and the
\* one that one negative indicator brings to -0.3
HeadlinePolarities == {-1000, -200, 1000}

NextSentiment ==
    \/ run_market_mind({"Apple"}, {TRUE}, 1)
    \/ ResearchAgent_run(ScoredLists, {"ok"})
    \/ FinancialAnalystAgent_run({300}, {"ok"}, {"ok"})
    \/ SentimentAnalystAgent_run(HeadlinePolarities, CallResults, {"ok"})
    \/ DataAnalystAgent_run({"ok"}, {"ok"})
    \/ RegulatoryAnalystAgent_run({"ok"}, {"ok"})
    \/ ReportWriterAgent_run({"ok"})

SpecSentiment == Init /\ [][NextSentiment]_vars

----------------------------------------------------------------------------
(* The rules over the headlines *)

\* the news of the research document in the store, none without one
PersistedNews ==
    IF Exists(files, "raw_data.json") THEN files["raw_data.json"][1].news ELSE << >>

\* the number of headlines of the store that contain the word, whatever the
\* letter case of either
TitlesWith(word) ==
    Cardinality({i \in 1..Len(PersistedNews) :
                    Contains(Lower(word), Lower(PersistedNews[i].title))})

----------------------------------------------------------------------------
(* One call of run_market_mind for Apple in a working environment, over one   *)
(* headline: a plain one, or a plain one with a lawsuit keyword inserted at   *)
(* any place in lower case, in upper case or capitalised                      *)

UpperChar(c) ==
    IF \E i \in 1..26 : LowerCase[i] = c
    THEN UpperCase[CHOOSE i \in 1..26 : LowerCase[i] = c]
    ELSE c

Upper(text) == [i \in 1..Len(text) |-> UpperChar(text[i])]

Capitalised(text) == [i \in 1..Len(text) |-> IF i = 1 THEN UpperChar(text[i]) ELSE text[i]]

\* the text with the word inserted after its first p characters
Insert(text, p, word) == SubSeq(text, 1, p) \o word \o SubSeq(text, p + 1, Len(text))

\* "ok" holds no lawsuit keyword, "Court" is one
PlainTitles == {<<"o","k">>, <<"C","o","u","r","t">>}

KeywordSpellings ==
    UNION {{lawsuit_keywords[i], Upper(lawsuit_keywords[i]), Capitalised(lawsuit_keywords[i])} :
            i \in 1..Len(lawsuit_keywords)}

InsertedTitles ==
    UNION {{Insert(t, p, w) : p \in 0..Len(t), w \in KeywordSpellings} : t \in PlainTitles}

LawsuitLists == {<<[title |-> t, link |-> "u"]>> : t \in PlainTitles \cup InsertedTitles}

NextLawsuit ==
    \/ run_market_mind({"Apple"}, {TRUE}, 1)
    \/ ResearchAgent_run(LawsuitLists, {"ok"})
    \/ FinancialAnalystAgent_run({300}, {"ok"}, {"ok"})
    \/ SentimentAnalystAgent_run({150}, {"ok"}, {"ok"})
    \/ DataAnalystAgent_run({"ok"}, {"ok"})
    \/ RegulatoryAnalystAgent_run({"ok"}, {"ok"})
    \/ ReportWriterAgent_run({"ok"})

SpecLawsuit == Init /\ [][NextLawsuit]_vars

\* the lower-cased text holds a keyword of the fixed set
HoldsLawsuitKeyword(text) ==
    \E k \in {<<"l","a","w","s","u","i","t">>, <<"s","u","e","d">>,
               <<"l","e","g","a","l"," ","a","c","t","i","o","n">>, <<"c","o","u","r","t">>,
               <<"l","i","t","i","g","a","t","i","o","n">>,
               <<"s","e","t","t","l","e","m","e","n","t">>,
               <<"c","l","a","s","s"," ","a","c","t","i","o","n">>,
               <<"d","i","s","p","u","t","e">>, <<"p","a","t","e","n","t">>,
               <<"i","n","f","r","i","n","g","e","m","e","n","t">>} :
        Contains(k, Lower(text))

\* C12: has_legal_concern of an article is true exactly when its lower-cased
\* title holds a lawsuit keyword, and it is true for every title made by
\* inserting a keyword, in any of the letter cases, anywhere in another title
C12_LawsuitDetectionMonotonic ==
    \A i \in 1..Len(PersistedAggregate.articles) :
        LET article == PersistedAggregate.articles[i]
        IN  /\ article.has_legal_concern <=> HoldsLawsuitKeyword(article.title)
            /\ article.title \in InsertedTitles => article.has_legal_concern

\* the sentiment document of the headline "ok" with SUED inserted in the middle
C12_Witness ==
    /\ Len(PersistedAggregate.articles) = 1
    /\ PersistedAggregate.articles[1].title = <<"o","S","U","E","D","k">>
    /\ PersistedAggregate.articles[1].has_legal_concern

----------------------------------------------------------------------------
(* The scores of the sentiment aggregate, in thousandths *)

\* the sum of the sentiment_score of the articles of an aggregate
TotalOf(aggregate) ==
    SumSeq([i \in 1..Len(aggregate.articles) |-> aggregate.articles[i].sentiment_score])

\* C13 as stated: overall_score is exactly the mean of the scores of the articles
C13_ExactMean ==
    LET n == Len(PersistedAggregate.articles)
    IN  n * PersistedAggregate.overall_score = TotalOf(PersistedAggregate)

\* C13: overall_score is the mean of the final polarities of all the articles
\* of the input rounded to three decimals, it lies between -1 and 1, and for an
\* empty input the aggregate has no article, no legal concern and the score 0;
\* the stage never raises
C13_OverallScoreIsRoundedMean ==
    LET aggregate == PersistedAggregate
        n == Len(aggregate.articles)
        distance == n * aggregate.overall_score - TotalOf(aggregate)
    IN  /\ aggregate.overall_score >= -1000 /\ aggregate.overall_score <= 1000
        /\ n > 0 => /\ n = Len(PersistedNews)
                    /\ 2 * distance <= n /\ 2 * distance >= -n
        /\ n = 0 => aggregate.overall_score = 0 /\ aggregate.legal_concerns = << >>
        /\ (Exists(files, "sentiment_data.json") /\ PersistedNews = << >>) => n = 0
        /\ ret.stage = "SentimentAnalystAgent" => ~ret.raised /\ ret.value # EmptyDict

\* an aggregate of three articles whose mean has more than three decimals
C13_Witness ==
    /\ Len(PersistedAggregate.articles) = 3
    /\ 3 * PersistedAggregate.overall_score # TotalOf(PersistedAggregate)

----------------------------------------------------------------------------
(* The regulatory finding *)

\* the RegulatoryAnalystAgent has just run and returned a finding
FindingReturned == ret.stage = "RegulatoryAnalystAgent" /\ ret.value # EmptyDict

\* C14: for a company of the regulatory map, regulatory_mentions holds one entry
\* with the keyword, the title and the link for each pair of a headline and a
\* keyword found in it whatever the letter case, the pairs of a headline
\* together in the order of the keyword list and the headlines in their order
C14_RegulatoryMentionsPerPair ==
    (FindingReturned /\ company = "Samsung") =>
        LET keywords == Lookup(regulatory_map, company, << >>)
            news == PersistedNews
            pairs == {q \in (1..Len(news)) \X (1..Len(keywords)) :
                        Contains(Lower(keywords[q[2]]), Lower(news[q[1]].title))}
            rank(q) == Cardinality({r \in pairs :
                            r[1] < q[1] \/ (r[1] = q[1] /\ r[2] <= q[2])})
            mentions == ret.value.regulatory_mentions
        IN  /\ Len(mentions) = Cardinality(pairs)
            /\ \A q \in pairs :
                  mentions[rank(q)] = [regulation |-> keywords[q[2]],
                                       title |-> news[q[1]].title,
                                       link |-> news[q[1]].link]

\* the finding for Samsung over twice the headline "ftc Gdpr": four mentions
C14_Witness ==
    /\ FindingReturned
    /\ company = "Samsung"
    /\ Len(PersistedNews) = 2
    /\ Len(ret.value.regulatory_mentions) = 4
    /\ ret.value.regulatory_mentions[1].regulation = <<"G","D","P","R">>
    /\ ret.value.regulatory_mentions[2].regulation = <<"F","T","C">>
    /\ ret.value.regulatory_mentions[2].link = "h2"
    /\ ret.value.regulatory_mentions[3] = ret.value.regulatory_mentions[1]

----------------------------------------------------------------------------
(* Failures of the write and of the generative model *)

\* C15: when the write of a stage fails, whether the directory cannot be
\* created or the file cannot be written, run() does not raise, nothing is
\* persisted, and run() returns the result it computed, not an empty one
C15_WriteFailureReturnsResult ==
    (ret.stage # "" /\ ret.io \in {"makedirs_fails", "open_fails"}) =>
        /\ ~ret.raised
        /\ \A f \in FileNames \cup {"report"} : WriterOf[f] = ret.stage => f \notin written
        /\ ret.stage # "ReportWriterAgent" => ret.value # EmptyDict

\* C16: whatever the state of the generative model (working, failing, not
\* configured for want of a key), analyze_data does not raise and returns an
\* analysis whose four collections are those derived from the documents
C16_AnalysisIndependentOfModel ==
    ret.stage = "DataAnalystAgent" =>
        LET financial_data == _load_json(files, "financial_data.json")
            news_data == _load_json(files, "raw_data.json")
            sentiment_data == _load_json(files, "sentiment_data.json")
        IN  /\ ~ret.raised
            /\ ret.value # EmptyDict
            /\ ret.value.market_trends = _analyze_market_trends(financial_data)
            /\ ret.value.competitor_analysis = _analyze_competitors(company, news_data)
            /\ ret.value.opportunities = _identify_opportunities(financial_data, sentiment_data)
            /\ ret.value.risk_factors = _analyze_risks(financial_data, sentiment_data)

----------------------------------------------------------------------------
(* One call of run_market_mind for Apple over lists of numbered headlines that *)
(* go beyond the five the report shows; the research document may fail to be  *)
(* written and the market data to be fetched                                  *)

MaxNews == 6

Digits == <<"1","2","3","4","5","6","7","8","9">>

\* the headline "n" followed by the digit i
Numbered(i) == [title |-> <<"n", Digits[i]>>, link |-> "u"]

\* the first k numbered headlines, in ascending and in descending order
NumberedLists ==
    UNION {{[i \in 1..k |-> Numbered(i)], [i \in 1..k |-> Numbered(k + 1 - i)]} :
            k \in 0..MaxNews}

NextReport ==
    \/ run_market_mind({"Apple"}, BOOLEAN, 1)
    \/ ResearchAgent_run(NumberedLists, {"ok", "open_fails"})
    \/ FinancialAnalystAgent_run({300}, CallResults, {"ok"})
    \/ SentimentAnalystAgent_run({150}, {"ok"}, {"ok"})
    \/ DataAnalystAgent_run({"ok"}, {"ok"})
    \/ RegulatoryAnalystAgent_run({"ok"}, {"ok"})
    \/ ReportWriterAgent_run({"ok"})

SpecReport == Init /\ [][NextReport]_vars

\* the ReportWriterAgent has just run and written the report
ReportWritten == ret.stage = "ReportWriterAgent" /\ ret.value = TRUE

\* C17: the news section built from the store lists the titles of the first 5
\* headlines of the research document, all of them when they are fewer, in
\* their order, and shows "No recent news available" exactly when there is no
\* headline or no research document; a report that is written carries it
C17_NewsSectionFirstFive ==
    LET news == PersistedNews
        section == _create_news_section(_load_data(files))
    IN  /\ Len(section.items) = (IF Len(news) < 5 THEN Len(news) ELSE 5)
        /\ \A i \in 1..Len(section.items) : section.items[i] = news[i].title
        /\ section.placeholder = (IF news = << >> THEN "No recent news available" ELSE "")
        /\ ReportWritten => reports[company][1].news = section

\* a report written over six headlines shows the first five
C17_Witness ==
    /\ ReportWritten
    /\ Len(PersistedNews) = 6
    /\ Len(reports[company][1].news.items) = 5
    /\ reports[company][1].news.items[5] = PersistedNews[5].title

----------------------------------------------------------------------------
(* The score and the legal concern of each article *)

\* the number of words of the list found in the lower-cased title
Matches(words, title) ==
    Cardinality({k \in 1..Len(words) : Contains(words[k], Lower(title))})

\* C18: the score of each article is the polarity of its title plus 0.1 for
\* each positive indicator found in the title and minus 0.1 for each negative
\* one, whatever the letter case, brought back to 1 when above and to -1 when
\* below; it is always between -1 and 1
C18_ScoreIsClampedAdjustment ==
    \A i \in 1..Len(PersistedAggregate.articles) :
        LET article == PersistedAggregate.articles[i]
            adjusted == polarity[i] + 100 * Matches(positive_indicators, article.title)
                                    - 100 * Matches(negative_indicators, article.title)
        IN  /\ article.sentiment_score
                  = (IF adjusted > 1000 THEN 1000 ELSE IF adjusted < -1000 THEN -1000
                     ELSE adjusted)
            /\ article.sentiment_score >= -1000
            /\ article.sentiment_score <= 1000

\* "growth Launch" with the polarity 1 scores 1, "DISPUTE" with -1 scores -1
C18_Witness ==
    /\ Len(PersistedAggregate.articles) = 2
    /\ PersistedAggregate.articles[1].link = "h4"
    /\ polarity[1] = 1000
    /\ PersistedAggregate.articles[1].sentiment_score = 1000
    /\ PersistedAggregate.articles[2].link = "h3"
    /\ polarity[2] = -1000
    /\ PersistedAggregate.articles[2].sentiment_score = -1000

\* C19: the legal_concerns of the aggregate hold one entry, with the title and
\* the link, for each article whose has_legal_concern is true, in the order of
\* the articles, and none for the others; its severity is high when the final
\* polarity of the article is below -0.3 and medium otherwise
C19_LegalConcernsPerFlaggedArticle ==
    LET articles == PersistedAggregate.articles
        concerns == PersistedAggregate.legal_concerns
        flagged == {i \in 1..Len(articles) : articles[i].has_legal_concern}
        rank(i) == Cardinality({j \in flagged : j <= i})
    IN  /\ Len(concerns) = Cardinality(flagged)
        /\ \A i \in flagged :
              /\ concerns[rank(i)].title = articles[i].title
              /\ concerns[rank(i)].link = articles[i].link
              /\ concerns[rank(i)].severity
                    = (IF articles[i].sentiment_score < -300 THEN "high" ELSE "medium")

\* "DISPUTE" scored exactly -0.3 is a medium concern, scored -1 a high one, and
\* the headline between them is no concern
C19_Witness ==
    /\ Len(PersistedAggregate.articles) = 3
    /\ PersistedAggregate.articles[1].sentiment_score = -300
    /\ ~PersistedAggregate.articles[2].has_legal_concern
    /\ PersistedAggregate.articles[3].sentiment_score = -1000
    /\ Len(PersistedAggregate.legal_concerns) = 2
    /\ PersistedAggregate.legal_concerns[1].severity = "medium"
    /\ PersistedAggregate.legal_concerns[2].severity = "high"

\* C20: the finding of a company that is not in the regulatory map has no
\* mention whatever the headlines; the summary of a finding is not empty only
\* when it has a mention; compliance_risks is always empty
C20_NoMentionNoSummary ==
    FindingReturned =>
        /\ company = "Apple" => ret.value.regulatory_mentions = << >>
        /\ ret.value.regulatory_mentions = << >> => ret.value.summary = ""
        /\ ret.value.compliance_risks = << >>

\* the finding for Apple, with the key, over three headlines two of which name
\* regulations of another company
C20_Witness ==
    /\ FindingReturned
    /\ company = "Apple"
    /\ hasKey
    /\ Len(PersistedNews) = 3
    /\ PersistedNews[1].link = "h1"
    /\ PersistedNews[2].link = "h2"
    /\ ret.value.regulatory_mentions = << >>
    /\ ret.value.summary = ""

----------------------------------------------------------------------------
(* Two simultaneous calls of run_market_mind on the same directories, in a    *)
(* working environment. Each call is a process of its own; the variables hold *)
(* the state of the one that is executing and "other" that of the one that is *)
(* waiting. The processes are interleaved between the stages: a stage reads   *)
(* and writes whole documents.                                                *)

\* the state of the call that is executing
Locals ==
    [pc |-> pc, company |-> company, ticker_symbol |-> ticker_symbol, hasKey |-> hasKey,
     executed |-> executed, ret |-> ret, result |-> result, written |-> written,
     staleReads |-> staleReads, polarity |-> polarity, self |-> self]

\* the other call goes on: nothing in run_market_mind or in the agents makes
\* one call wait for another
Switch ==
    /\ Locals # other
    /\ other' = Locals
    /\ pc' = other.pc
    /\ company' = other.company
    /\ ticker_symbol' = other.ticker_symbol
    /\ hasKey' = other.hasKey
    /\ executed' = other.executed
    /\ ret' = other.ret
    /\ result' = other.result
    /\ written' = other.written
    /\ staleReads' = other.staleReads
    /\ polarity' = other.polarity
    /\ self' = other.self
    /\ UNCHANGED <<files, reports, runs, author>>

\* the articles the two calls may fetch
FetchedLists == {<<[title |-> <<"L","G">>, link |-> "u1"]>>,
                 <<[title |-> <<"g","r","o","w","t","h">>, link |-> "u2"]>>}

NextConcurrent ==
    \/ run_market_mind(Companies, {TRUE}, MaxRuns)
    \/ ResearchAgent_run(FetchedLists, {"ok"})
    \/ FinancialAnalystAgent_run({-600}, CallResults, {"ok"})
    \/ SentimentAnalystAgent_run({150}, {"ok"}, {"ok"})
    \/ DataAnalystAgent_run({"ok"}, {"ok"})
    \/ RegulatoryAnalystAgent_run({"ok"}, {"ok"})
    \/ ReportWriterAgent_run({"ok"})
    \/ Switch

SpecConcurrent == Init /\ [][NextConcurrent]_vars

\* the step is the stage of the executing call returning
JustReturned(stage) ==
    At(stage) /\ other' = other /\ executed' = Append(executed, stage) /\ ~ret'.raised

\* C21: two simultaneous calls of run_market_mind, for the same or for
\* different companies, are not isolated on the store: a stage loads the
\* documents that are in the directory when it runs, whichever call wrote them
\* last. The analysis a call returns is computed from the articles and the
\* snapshot of the store, and the report it writes from its documents, also when
\* the other call wrote them, and the load is one of a document of another call
C21_RunsShareTheStore ==
    [][/\ (JustReturned("DataAnalystAgent") /\ ret'.value # EmptyDict) =>
            /\ ret'.value.competitor_analysis
                  = _analyze_competitors(company, _load_json(files, "raw_data.json"))
            /\ ret'.value.market_trends
                  = _analyze_market_trends(_load_json(files, "financial_data.json"))
            /\ \A f \in {"raw_data.json", "financial_data.json", "sentiment_data.json"} :
                  (Exists(files, f) /\ author[f] # self) => f \in staleReads'
       /\ (JustReturned("ReportWriterAgent") /\ ret'.value = TRUE) =>
            /\ reports'[company][1].news = _create_news_section(_load_data(files))
            /\ \A k \in DOMAIN ReportInputs :
                  (Exists(files, ReportInputs[k]) /\ author[ReportInputs[k]] # self)
                      => ReportInputs[k] \in staleReads'
      ]_vars

\* the call for Samsung, whose own article is the one about growth that its
\* sentiment document scores, has just returned an analysis that names LG as a
\* competitor mentioned in the articles: the articles it loaded are those the
\* simultaneous call for Apple wrote over its own
C21_Witness ==
    /\ company = "Samsung" /\ other.company = "Apple"
    /\ other.pc \in 1..Len(StageOrder)
    /\ ret.stage = "DataAnalystAgent" /\ ret.value # EmptyDict
    /\ pc = 5
    /\ "raw_data.json" \in written
    /\ "raw_data.json" \in staleReads
    /\ author["raw_data.json"] = other.self
    /\ files["raw_data.json"][1].company = "Apple"
    /\ author["sentiment_data.json"] = self
    /\ files["sentiment_data.json"][1].sentiment_analysis.news_sentiment.articles[1].title
          = <<"g","r","o","w","t","h">>
    /\ ret.value.competitor_analysis # << >>
    /\ ret.value.competitor_analysis
          = _analyze_competitors("Samsung", files["raw_data.json"][1])

----------------------------------------------------------------------------
(* One call of run_market_mind for Apple on a directory "data" that already   *)
(* holds a raw_data.json, which stays when the ResearchAgent cannot open it   *)
(* for writing. The file is any document of articles, also one that the       *)
(* ResearchAgent would not have written: articles without a title or a link   *)

MaxStored == 2

\* an article as the ResearchAgent writes it, with and without a lawsuit keyword,
\* an article without a link and one without a title
StoredArticles == {
    [title |-> <<"S","u","e","d">>, link |-> "u1"],
    [title |-> <<"g","r","o","w","t","h">>, link |-> "u2"],
    [title |-> <<"S","u","e","d">>],
    [link |-> "u3"] }

\* what json.load may give for the file: with and without the key "news"
StoredDocuments ==
    {[company |-> "Apple", news |-> l] : l \in SeqUpTo(StoredArticles, MaxStored)}
        \cup {[company |-> "Apple"]}

InitStored ==
    /\ files \in {[f \in FileNames |-> IF f = "raw_data.json" THEN d ELSE << >>] :
                      d \in {<< >>} \cup {<<x>> : x \in StoredDocuments}}
    /\ reports = [c \in Companies |-> << >>]
    /\ pc = 0
    /\ company = ""
    /\ ticker_symbol = ""
    /\ hasKey = FALSE
    /\ executed = << >>
    /\ ret = NoReturn
    /\ result = ""
    /\ written = {}
    /\ staleReads = {}
    /\ runs = 0
    /\ polarity = << >>
    /\ self = 0
    /\ author = [f \in FileNames |-> 0]
    /\ other = NotRunning

NextStored ==
    \/ run_market_mind({"Apple"}, {TRUE}, 1)
    \/ ResearchAgent_run(OneArticle, {"ok", "open_fails"})
    \/ FinancialAnalystAgent_run({-600}, {"ok"}, {"ok"})
    \/ SentimentAnalystAgent_run(Polarities, CallResults, {"ok"})
    \/ DataAnalystAgent_run({"ok"}, {"ok"})
    \/ RegulatoryAnalystAgent_run({"ok"}, {"ok"})
    \/ ReportWriterAgent_run({"ok"})

SpecStored == InitStored /\ [][NextStored]_vars

\* the SentimentAnalystAgent has just returned its document
SentimentReturned == ret.stage = "SentimentAnalystAgent" /\ ~ret.raised

\* the articles of raw_data.json, none when the file or its key "news" is missing
StoredNews == Get(_load_json(files, "raw_data.json"), "news", << >>)

\* every article of the file has a title and a link
WellFormed == \A i \in 1..Len(StoredNews) : {"title", "link"} \subseteq DOMAIN StoredNews[i]

\* the aggregate holds one record per article of the file, in the order of the
\* file, the rounded mean of their scores and the concerns of the flagged ones
FullAggregate(agg) ==
    /\ WellFormed
    /\ Len(polarity) = Len(StoredNews)
    /\ Len(agg.articles) = Len(StoredNews)
    /\ \A i \in 1..Len(StoredNews) :
          /\ agg.articles[i].title = StoredNews[i].title
          /\ agg.articles[i].link = StoredNews[i].link
          /\ agg.articles[i].sentiment_score = FinalScore(StoredNews[i].title, polarity[i])
          /\ agg.articles[i].has_legal_concern = detect_lawsuits(StoredNews[i].title)
    /\ agg.overall_score =
          IF StoredNews = << >> THEN 0
          ELSE RoundDiv(SumSeq([i \in 1..Len(StoredNews) |->
                                 FinalScore(StoredNews[i].title, polarity[i])]),
                        Len(StoredNews))
    /\ LET flagged == {i \in 1..Len(StoredNews) : detect_lawsuits(StoredNews[i].title)}
           rank(i) == Cardinality({j \in flagged : j <= i})
       IN  /\ Len(agg.legal_concerns) = Cardinality(flagged)
           /\ \A i \in flagged :
                 /\ agg.legal_concerns[rank(i)].title = StoredNews[i].title
                 /\ agg.legal_concerns[rank(i)].link = StoredNews[i].link

\* the language library raised while the titles were scored
LibraryRaised == StoredNews # << >> /\ polarity = << >>

\* C22 as stated: the aggregate of the sentiment document is either one record
\* per article of raw_data.json in the order of the file, with overall_score and
\* legal_concerns over all of them, or, when the file cannot be loaded or an
\* article lacks a title or a link, exactly the empty default
C22_AllOrNothing ==
    SentimentReturned =>
        LET agg == ret.value.sentiment_analysis.news_sentiment
        IN  \/ FullAggregate(agg)
            \/ /\ ~Exists(files, "raw_data.json") \/ ~WellFormed
               /\ agg = EmptyAggregate

\* C22: the aggregate of the sentiment document is either one record per
\* article of raw_data.json in the order of the file, with overall_score and
\* legal_concerns over all of them, or, when the file cannot be loaded, an
\* article lacks a title or a link, or the language library raises while a title
\* is scored, exactly the empty default; it is never filled in part
C22_AllOrNothingOnAnyFailure ==
    SentimentReturned =>
        LET agg == ret.value.sentiment_analysis.news_sentiment
        IN  \/ FullAggregate(agg)
            \/ /\ ~Exists(files, "raw_data.json") \/ ~WellFormed \/ LibraryRaised
               /\ agg = EmptyAggregate

\* the file holds an article with a lawsuit keyword followed by an article
\* without a link, the library worked, and the aggregate returned is the empty
\* default
C22_Witness ==
    /\ SentimentReturned
    /\ Len(StoredNews) = 2
    /\ {"title", "link"} \subseteq DOMAIN StoredNews[1]
    /\ detect_lawsuits(StoredNews[1].title)
    /\ DOMAIN StoredNews[2] = {"title"}
    /\ Len(polarity) = 2
    /\ ret.value.sentiment_analysis.news_sentiment = EmptyAggregate

----------------------------------------------------------------------------
(* The report *)

\* C23: in a report that is written while sentiment_data.json is present, the
\* section Market Sentiment shows the overall_score of the aggregate of that
\* document and one entry for each of its legal concerns; the placeholder
\* "No sentiment data available" is shown exactly when the document is missing
C23_ReportShowsSentiment ==
    ReportWritten =>
        LET section == reports[company][1].sentiment
        IN  IF Exists(files, "sentiment_data.json")
            THEN /\ section.placeholder = ""
                 /\ section.score = <<PersistedAggregate.overall_score>>
                 /\ Len(section.items) = Len(PersistedAggregate.legal_concerns)
            ELSE section.placeholder = "No sentiment data available"

----------------------------------------------------------------------------
(* What run_market_mind returns *)

\* an exception left a stage of the call that has returned: its run() raised,
\* or the constructor of the RegulatoryAnalystAgent did, before its run()
Escaped ==
    \/ ret.raised
    \/ /\ ticker_symbol # "None"
       /\ hasKey
       /\ executed = SubSeq(StageOrder, 1, 4)

\* C24: what run_market_mind returns depends only on the ticker and on the
\* exceptions that leave a stage: None when the ticker is not resolved, False
\* when an exception leaves a stage, True in every other case, after all six
\* stages were called, whatever they returned or wrote
C24_ResultIgnoresStages ==
    /\ pc \in 1..Len(StageOrder) => result = ""
    /\ pc = Len(StageOrder) + 1 =>
          /\ result = (IF ticker_symbol = "None" THEN "None"
                       ELSE IF Escaped THEN "False" ELSE "True")
          /\ result = "True" => executed = StageOrder

\* run_market_mind has returned True although no stage wrote a document, the
\* store is empty, and the ReportWriterAgent returned False
C24_Witness ==
    /\ pc = Len(StageOrder) + 1
    /\ result = "True"
    /\ written = {}
    /\ \A f \in FileNames : ~Exists(files, f)
    /\ reports[company] = << >>
    /\ ret.stage = "ReportWriterAgent" /\ ret.value = FALSE

====
